---- MODULE Spec2Model ----
(***************************************************************************)
(* Model of the alphamask element (src/src/gstalphamask.c): the video      *)
(* chain, the alpha chain, the per-pad event handlers and the state        *)
(* change handler, running on a video streaming context, an alpha          *)
(* streaming context and an application context that share one mutex and   *)
(* one condition variable.                                                 *)
(*                                                                         *)
(* Threading assumptions taken from the hosting pipeline: buffers and      *)
(* serialized events of one pad (segment, gap, eos, segment-done,          *)
(* flush-stop) are delivered one at a time under that pad's stream lock;   *)
(* flush-start and state changes arrive from other threads at any moment.  *)
(*                                                                         *)
(* Clock values are unsigned: GST_CLOCK_TIME_NONE is the all-ones value,   *)
(* here of an 8 bit clock, so every comparison the code makes on raw       *)
(* GstClockTime values is the plain unsigned comparison, NONE included.    *)
(***************************************************************************)
EXTENDS Integers, Sequences, FiniteSets, TLC

\* ---------------------------------------------------------------- bounds
MaxTime == 2
MaxInputs == 3

\* ------------------------------------------------------------- constants
GST_CLOCK_TIME_NONE == 255

NONE == GST_CLOCK_TIME_NONE

Times == 0..MaxTime
Stamps == Times \cup {NONE}
Durations == {1, 2, NONE}

NoBuf == [id |-> 0, ts |-> NONE, dur |-> NONE]

GST_CLOCK_TIME_IS_VALID(t) == t # NONE

\* ------------------------------------------------------------- GstSegment
\* gst_segment_init (seg, format): rate 1, base 0, start 0, stop -1, position 0
gst_segment_init(fmt) ==
  [format |-> fmt, start |-> 0, stop |-> NONE, base |-> 0, position |-> 0]

\* the zero-filled GstSegment of a freshly allocated instance
ZeroSegment ==
  [format |-> "UNDEFINED", start |-> 0, stop |-> 0, base |-> 0, position |-> 0]

\* gst_segment_to_running_time (seg, GST_FORMAT_TIME, position), rate 1.0:
\* NONE for an undefined input, a format mismatch or a position outside
\* [start, stop]; otherwise position - start + base.
gst_segment_to_running_time(seg, p) ==
  IF p = NONE THEN NONE
  ELSE IF seg.format # "TIME" THEN NONE
  ELSE IF p < seg.start THEN NONE
  ELSE IF seg.stop # NONE /\ p > seg.stop THEN NONE
  ELSE p - seg.start + seg.base

\* mutant: the clipping accepts every interval
gst_segment_clip_in_all(seg, start, stop) == TRUE

\* gst_segment_clip (seg, GST_FORMAT_TIME, start, stop, &clip_start, &clip_stop)
gst_segment_clip_in(seg, start, stop) ==
  /\ seg.format = "TIME"
  /\ ~(seg.stop # NONE /\ start # NONE
        /\ (start > seg.stop \/ (seg.start # seg.stop /\ start = seg.stop)))
  /\ ~(stop # NONE
        /\ (stop < seg.start \/ (start # stop /\ stop = seg.start)))

Max(a, b) == IF a >= b THEN a ELSE b
Min(a, b) == IF a <= b THEN a ELSE b

gst_segment_clip_start(seg, start) ==
  IF start = NONE THEN NONE ELSE Max(start, seg.start)

gst_segment_clip_stop(seg, stop) ==
  IF stop = NONE THEN seg.stop
  ELSE IF seg.stop = NONE THEN stop
  ELSE Min(stop, seg.stop)

\* segments carried by segment events (format TIME, position at start)
SegmentEvents ==
  { [format |-> "TIME", start |-> 1, stop |-> MaxTime + 1, base |-> 0,
     position |-> 1],
    [format |-> "TIME", start |-> 0, stop |-> NONE, base |-> 1,
     position |-> 0],
    [format |-> "BYTES", start |-> 0, stop |-> NONE, base |-> 0,
     position |-> 0] }

\* ------------------------------------------------------------------ state
VARIABLES
  state,               \* element state: "READY", "PAUSED", "STOPPING"
  segment,             \* thiz->segment
  alpha_segment,       \* thiz->alpha_segment
  alpha_buffer,        \* thiz->alpha_buffer (NoBuf = NULL)
  video_flushing, video_eos, video_segment_done,
  alpha_flushing, alpha_eos, alpha_segment_done,
  fps_dur,             \* GST_SECOND * fps_d / fps_n of iinfo, 0 if unknown
  lock,                \* owner of thiz->lock: "free", "video", "alpha"
  waiting,             \* contexts blocked in g_cond_wait, not yet signalled
  vpc, vloc,           \* video context: position in the code; locals, what it
                       \* pushed downstream (out) and the alpha it used (pair)
  vlast,               \* the branch taken and the value returned, of the
                       \* video chain call in progress or else of the last one
  apc, aloc,           \* alpha context: position in the code, in-flight buffer
  alast,               \* outcome of the last alpha chain call
  vev, aev,            \* segment carried by the event a context is handling
  nin,                 \* buffers and events delivered so far
  pix                  \* the frames handed to the alpha copy routines, and
                       \* the output plane they leave

shared == <<segment, alpha_segment, alpha_buffer, video_flushing, video_eos,
            video_segment_done, alpha_flushing, alpha_eos, alpha_segment_done>>

vars == <<state, segment, alpha_segment, alpha_buffer, video_flushing,
          video_eos, video_segment_done, alpha_flushing, alpha_eos,
          alpha_segment_done, fps_dur, lock, waiting, vpc, vloc, vlast,
          apc, aloc, alast, vev, aev, nin, pix>>

\* the element proper, without the pixel data
element_vars == <<state, shared, fps_dur, lock, waiting, vpc, vloc, vlast, apc,
                  aloc, alast, vev, aev, nin>>

NoLoc == [start |-> 0, stop |-> 0, clip_start |-> 0, ts |-> NONE, dur |-> NONE,
          pop_alpha |-> FALSE, seen |-> 0, out |-> "none", pair |-> 0]

NoLast == [ret |-> "none", branch |-> "none"]

NoALast == [ret |-> "none", stored |-> FALSE]

\* no frame under composition
NoPix == [oformat |-> "none"]

\* the element after gst_alpha_mask_init, in the READY state
InitElement ==
  /\ state = "READY"
  /\ segment = gst_segment_init("TIME")
  /\ alpha_segment = ZeroSegment
  /\ alpha_buffer = NoBuf
  /\ video_flushing = FALSE /\ video_eos = FALSE /\ video_segment_done = FALSE
  /\ alpha_flushing = FALSE /\ alpha_eos = FALSE /\ alpha_segment_done = FALSE
  /\ fps_dur = 0
  /\ lock = "free"
  /\ waiting = {}
  /\ vpc = "idle" /\ vloc = NoLoc /\ vlast = NoLast
  /\ apc = "idle" /\ aloc = NoBuf /\ alast = NoALast
  /\ vev = ZeroSegment /\ aev = ZeroSegment
  /\ nin = 0

Init == InitElement /\ pix = NoPix


\* ------------------------------------------------------- condition variable
\* mutant: the held buffer is not released
pop_alpha_buffer_keep(buf) == buf

\* gst_alpha_mask_pop_alpha: unref and clear the slot, then broadcast
pop_alpha_buffer(buf) == NoBuf

\* mutant: the slot is emptied without the broadcast
pop_alpha_waiting_silent(w) == w

pop_alpha_waiting(w) == {}

\* mutant: the broadcast is lost, the blocked contexts stay blocked
Broadcast_lost(w) == w

\* GST_ALPHA_MASK_BROADCAST: every blocked context becomes runnable
Broadcast(w) == {}

\* ------------------------------------------------------------ video chain
valid_alpha_time(b) == b.ts # NONE /\ b.dur # NONE

alpha_running_time(aseg, b) ==
  IF valid_alpha_time(b) THEN gst_segment_to_running_time(aseg, b.ts) ELSE NONE

alpha_running_time_end(aseg, b) ==
  IF valid_alpha_time(b)
  THEN gst_segment_to_running_time(aseg, b.ts + b.dur) ELSE NONE

\* the interval the decision compares: taken from the locals start and stop
vid_running_time(seg, loc) == gst_segment_to_running_time(seg, loc.start)

vid_running_time_end(seg, loc) == gst_segment_to_running_time(seg, loc.stop)

\* mutant: the stale test made strict, an alpha ending exactly where the
\* video starts is no longer released
AlphaTooOld_strict(seg, aseg, b, loc) ==
  valid_alpha_time(b) /\ alpha_running_time_end(aseg, b) < vid_running_time(seg, loc)

\* line 537: alpha buffer too old
AlphaTooOld(seg, aseg, b, loc) ==
  valid_alpha_time(b) /\ alpha_running_time_end(aseg, b) <= vid_running_time(seg, loc)

\* line 544: alpha in the future
AlphaInFuture(seg, aseg, b, loc) ==
  valid_alpha_time(b) /\ vid_running_time_end(seg, loc) <= alpha_running_time(aseg, b)

\* lines 494-512, 554-557: pop_alpha after the frame was pushed
PopAfterPush(seg, aseg, b, loc) ==
  \/ ~valid_alpha_time(b)
  \/ alpha_running_time_end(aseg, b) <= vid_running_time_end(seg, loc)

\* mutant: the end of the alpha stream is not looked at
WaitForAlphaBuf_deaf(seg, aseg, eos, segdone, loc) ==
  ~(/\ aseg.format = "TIME"
    /\ LET v == gst_segment_to_running_time(seg, loc.ts)
           s == gst_segment_to_running_time(aseg, aseg.start)
           p == gst_segment_to_running_time(aseg, aseg.position)
       IN \/ (GST_CLOCK_TIME_IS_VALID(s) /\ v < s)
          \/ (GST_CLOCK_TIME_IS_VALID(p) /\ v < p))

\* mutant: a video buffer at the alpha position does not wait either
WaitForAlphaBuf_le(seg, aseg, eos, segdone, loc) ==
  /\ ~(eos \/ segdone)
  /\ ~(/\ aseg.format = "TIME"
       /\ LET v == gst_segment_to_running_time(seg, loc.ts)
              s == gst_segment_to_running_time(aseg, aseg.start)
              p == gst_segment_to_running_time(aseg, aseg.position)
          IN \/ (GST_CLOCK_TIME_IS_VALID(s) /\ v <= s)
             \/ (GST_CLOCK_TIME_IS_VALID(p) /\ v <= p))

\* lines 565-591: wait_for_alpha_buf
WaitForAlphaBuf(seg, aseg, eos, segdone, loc) ==
  /\ ~(eos \/ segdone)
  /\ ~(/\ aseg.format = "TIME"
       /\ LET v == gst_segment_to_running_time(seg, loc.ts)
              s == gst_segment_to_running_time(aseg, aseg.start)
              p == gst_segment_to_running_time(aseg, aseg.position)
          IN \/ (GST_CLOCK_TIME_IS_VALID(s) /\ v < s)
             \/ (GST_CLOCK_TIME_IS_VALID(p) /\ v < p))

PadsActive == state \in {"PAUSED", "STOPPING"}

\* every buffer and event delivered to the element counts against MaxInputs
EventBudget == nin < MaxInputs /\ nin' = nin + 1

\* downstream's answer to gst_pad_push
FlowReturns == {"OK", "ERROR"}

\* GST_SECOND * fps_d / fps_n of the caps a caps event carries
FrameDurations == {2}

\* lines 430-484: the video pad receives a buffer; everything before the
\* label wait_for_alpha_buf, and the lock taken there for the first time
VideoChain(ts, dur) ==
  /\ UNCHANGED pix
  /\ PadsActive /\ vpc = "idle" /\ lock = "free" /\ EventBudget
  /\ LET start == ts
         stop == IF dur = NONE THEN NONE ELSE ts + dur
         in_seg == gst_segment_clip_in(segment, start, stop)
         clip_start == gst_segment_clip_start(segment, start)
         clip_stop == gst_segment_clip_stop(segment, stop)
         fix == clip_start # start \/ (stop # NONE /\ clip_stop # stop)
     IN IF ts = NONE
        THEN /\ vlast' = [NoLast EXCEPT !.ret = "OK", !.branch = "missing_timestamp"]
             /\ UNCHANGED <<vpc, vloc, lock>>
        ELSE IF (stop = NONE /\ start < segment.start) \/ ~in_seg
        THEN /\ vlast' = [NoLast EXCEPT !.ret = "OK", !.branch = "out_of_segment"]
             /\ UNCHANGED <<vpc, vloc, lock>>
        ELSE /\ vlast' = NoLast
             /\ vpc' = "v_decide" /\ lock' = "video"
             /\ vloc' = [start |-> start,
                         stop |-> IF stop # NONE THEN stop
                                  ELSE IF fps_dur # 0 THEN start + fps_dur
                                  ELSE start + 1,
                         clip_start |-> clip_start,
                         ts |-> IF fix THEN clip_start ELSE ts,
                         dur |-> IF fix /\ stop # NONE
                                 THEN clip_stop - clip_start ELSE dur,
                         pop_alpha |-> FALSE, seen |-> 0, out |-> "none",
                         pair |-> 0]
  /\ UNCHANGED <<state, shared, fps_dur, waiting, apc, aloc, alast, vev, aev>>

\* lines 543, 484: back at wait_for_alpha_buf after a stale alpha buffer was
\* released, the lock is taken again
VideoLock ==
  /\ UNCHANGED pix
  /\ vpc = "v_lock" /\ lock = "free"
  /\ lock' = "video" /\ vpc' = "v_decide"
  /\ UNCHANGED <<state, shared, fps_dur, waiting, vloc, vlast, apc, aloc,
                 alast, vev, aev, nin>>

\* lines 486-604: one pass of the decision, made holding the lock
VideoDecide ==
  /\ UNCHANGED pix
  /\ vpc = "v_decide" /\ lock = "video"
  /\ UNCHANGED <<state, segment, alpha_segment, video_flushing, video_eos,
                 video_segment_done, alpha_flushing, alpha_eos,
                 alpha_segment_done, fps_dur, apc, aloc, alast, vev, aev, nin>>
  /\ IF video_flushing
     THEN /\ lock' = "free" /\ vpc' = "idle" /\ vloc' = NoLoc
          /\ vlast' = [vlast EXCEPT !.ret = "FLUSHING", !.branch = "flushing"]
          /\ UNCHANGED <<alpha_buffer, waiting>>
     ELSE IF video_eos
     THEN /\ lock' = "free" /\ vpc' = "idle" /\ vloc' = NoLoc
          /\ vlast' = [vlast EXCEPT !.ret = "EOS", !.branch = "have_eos"]
          /\ UNCHANGED <<alpha_buffer, waiting>>
     ELSE IF alpha_buffer # NoBuf
     THEN IF AlphaTooOld(segment, alpha_segment, alpha_buffer, vloc)
          THEN /\ alpha_buffer' = pop_alpha_buffer(alpha_buffer)
               /\ waiting' = pop_alpha_waiting(waiting)
               /\ lock' = "free" /\ vpc' = "v_lock"
               /\ vlast' = [vlast EXCEPT !.branch = "stale"]
               /\ UNCHANGED vloc
          ELSE IF AlphaInFuture(segment, alpha_segment, alpha_buffer, vloc)
          THEN /\ lock' = "free" /\ vpc' = "v_pos"
               /\ vlast' = [vlast EXCEPT !.ret = "OK", !.branch = "future"]
               /\ UNCHANGED <<alpha_buffer, waiting, vloc>>
          ELSE /\ lock' = "free" /\ vpc' = "v_push"
               /\ vloc' = [vloc EXCEPT
                             !.pop_alpha = PopAfterPush(segment, alpha_segment,
                                                        alpha_buffer, vloc),
                             !.seen = alpha_buffer.id]
               /\ vlast' = [vlast EXCEPT !.branch = "emit"]
               /\ UNCHANGED <<alpha_buffer, waiting>>
     ELSE IF WaitForAlphaBuf(segment, alpha_segment, alpha_eos,
                             alpha_segment_done, vloc)
          THEN /\ waiting' = waiting \cup {"video"}
               /\ lock' = "free" /\ vpc' = "v_wait"
               /\ vlast' = [vlast EXCEPT !.branch = "wait"]
               /\ UNCHANGED <<alpha_buffer, vloc>>
          ELSE /\ lock' = "free" /\ vpc' = "v_fwd"
               /\ vlast' = [vlast EXCEPT !.branch = "nowait"]
               /\ UNCHANGED <<alpha_buffer, waiting, vloc>>

\* lines 595-598, 484: g_cond_wait returns with the lock, which is dropped
\* and, after the jump back to wait_for_alpha_buf, taken again
VideoWake ==
  /\ UNCHANGED pix
  /\ vpc = "v_wait" /\ "video" \notin waiting /\ lock = "free"
  /\ lock' = "video" /\ vpc' = "v_decide"
  /\ UNCHANGED <<state, shared, fps_dur, waiting, vloc, vlast, apc, aloc,
                 alast, vev, aev, nin>>

\* what gst_alpha_mask_convert hands back (lines 240-300): the output
\* buffer, or NULL when the video frame cannot be mapped
ConvertResults == {"obuf", "NULL"}

\* line 551 and gst_alpha_mask_push_frame (lines 373-401): composite with the
\* buffer the slot holds at that moment and push, the lock not held; with no
\* output buffer nothing is pushed and ret stays GST_FLOW_OK
VideoPushFrame(obuffer, r) ==
  /\ UNCHANGED pix
  /\ vpc = "v_push"
  /\ obuffer = "NULL" => r = "OK"
  /\ vlast' = [vlast EXCEPT !.ret = r]
  /\ vloc' = IF obuffer = "NULL" THEN vloc
             ELSE [vloc EXCEPT !.out = "comp", !.pair = alpha_buffer.id]
  /\ vpc' = IF vloc.pop_alpha THEN "v_pop" ELSE "v_pos"
  /\ UNCHANGED <<state, shared, fps_dur, lock, waiting, apc, aloc, alast, vev,
                 aev, nin>>

\* lines 559-563: pop_alpha under the lock after the push
VideoPopAlpha ==
  /\ UNCHANGED pix
  /\ vpc = "v_pop" /\ lock = "free"
  /\ alpha_buffer' = pop_alpha_buffer(alpha_buffer)
  /\ waiting' = pop_alpha_waiting(waiting)
  /\ vpc' = "v_pos"
  /\ UNCHANGED <<state, segment, alpha_segment, video_flushing, video_eos,
                 video_segment_done, alpha_flushing, alpha_eos,
                 alpha_segment_done, fps_dur, lock, vloc, vlast, apc, aloc,
                 alast, vev, aev, nin>>

\* mutant: the buffer is dropped instead of being forwarded
VideoForward_silent(r) ==
  /\ UNCHANGED pix
  /\ vpc = "v_fwd"
  /\ vlast' = [vlast EXCEPT !.ret = r]
  /\ vpc' = "v_pos"
  /\ UNCHANGED <<state, shared, fps_dur, lock, waiting, vloc, apc, aloc, alast,
                 vev, aev, nin>>

\* lines 600-602: forward the video buffer unmodified
VideoForward(r) ==
  /\ UNCHANGED pix
  /\ vpc = "v_fwd"
  /\ vlast' = [vlast EXCEPT !.ret = r]
  /\ vloc' = [vloc EXCEPT !.out = "plain"]
  /\ vpc' = "v_pos"
  /\ UNCHANGED <<state, shared, fps_dur, lock, waiting, apc, aloc, alast, vev,
                 aev, nin>>

\* lines 606-609: update position (lock not held) and return
VideoUpdatePosition ==
  /\ UNCHANGED pix
  /\ vpc = "v_pos"
  /\ segment' = [segment EXCEPT !.position = vloc.clip_start]
  /\ vpc' = "idle" /\ vloc' = NoLoc
  /\ UNCHANGED <<state, alpha_segment, alpha_buffer, video_flushing, video_eos,
                 video_segment_done, alpha_flushing, alpha_eos,
                 alpha_segment_done, fps_dur, lock, waiting, vlast, apc, aloc,
                 alast, vev, aev, nin>>


\* ------------------------------------------------------------ alpha chain
\* mutant: the wait loop is skipped and the slot overwritten
AlphaMustWait_never(slot) == FALSE

\* line 812: the loop condition, wait for the previous buffer to go away
AlphaMustWait(slot) == slot # NoBuf

\* mutant: a buffer without timestamp is taken to be outside the segment
alpha_in_seg_timed(aseg, b) ==
  /\ b.ts # NONE
  /\ gst_segment_clip_in(aseg, b.ts, IF b.dur # NONE THEN b.ts + b.dur ELSE NONE)

\* lines 789-809: clip against the alpha segment and rewrite the stamps
alpha_in_seg(aseg, b) ==
  IF b.ts # NONE
  THEN gst_segment_clip_in(aseg, b.ts, IF b.dur # NONE THEN b.ts + b.dur ELSE NONE)
  ELSE TRUE

alpha_clipped(aseg, b) ==
  LET stop == IF b.dur # NONE THEN b.ts + b.dur ELSE NONE
      clip_start == IF b.ts # NONE THEN gst_segment_clip_start(aseg, b.ts) ELSE 0
      clip_stop == IF b.ts # NONE THEN gst_segment_clip_stop(aseg, stop) ELSE 0
  IN [id |-> b.id,
      ts |-> IF b.ts # NONE THEN clip_start ELSE b.ts,
      dur |-> IF b.dur # NONE THEN clip_stop - clip_start ELSE b.dur]

\* lines 812-832: one evaluation of the loop condition with the lock held:
\* block on the condition, or fill the slot, broadcast and return
AlphaLoop(b) ==
  IF AlphaMustWait(alpha_buffer)
  THEN /\ waiting' = waiting \cup {"alpha"}
       /\ lock' = "free" /\ apc' = "a_wait" /\ aloc' = b
       /\ UNCHANGED <<alpha_buffer, alpha_segment, alast>>
  ELSE /\ alpha_segment' = IF b.ts # NONE
                           THEN [alpha_segment EXCEPT !.position = b.ts]
                           ELSE alpha_segment
       /\ alpha_buffer' = b
       /\ waiting' = Broadcast(waiting)
       /\ lock' = "free" /\ apc' = "idle" /\ aloc' = NoBuf
       /\ alast' = [ret |-> "OK", stored |-> TRUE]

AlphaReturn(r) ==
  /\ lock' = "free" /\ apc' = "idle" /\ aloc' = NoBuf
  /\ alast' = [ret |-> r, stored |-> FALSE]
  /\ UNCHANGED <<alpha_buffer, alpha_segment, waiting>>

\* the identity of a newly received alpha buffer: an address no live
\* reference names (the slot, the buffer the video context examined or used)
FreshId ==
  CHOOSE i \in 1..4 : i \notin {alpha_buffer.id, vloc.seen, vloc.pair}

\* lines 767-834: the alpha pad receives a buffer; the lock is taken on entry
\* and held up to the first wait or the return
AlphaChain(ts, dur) ==
  /\ UNCHANGED pix
  /\ PadsActive /\ apc = "idle" /\ lock = "free" /\ EventBudget
  /\ LET b == [id |-> FreshId, ts |-> ts, dur |-> dur]
     IN IF alpha_flushing THEN AlphaReturn("FLUSHING")
        ELSE IF alpha_eos THEN AlphaReturn("EOS")
        ELSE IF ~alpha_in_seg(alpha_segment, b) THEN AlphaReturn("OK")
        ELSE AlphaLoop(alpha_clipped(alpha_segment, b))
  /\ UNCHANGED <<state, segment, video_flushing, video_eos, video_segment_done,
                 alpha_flushing, alpha_eos, alpha_segment_done, fps_dur, vpc,
                 vloc, vlast, vev, aev>>

\* lines 815-822: g_cond_wait returns once signalled and the lock is free
\* again; the flushing flag is checked, then the loop condition
AlphaWake ==
  /\ UNCHANGED pix
  /\ apc = "a_wait" /\ "alpha" \notin waiting /\ lock = "free"
  /\ IF alpha_flushing THEN AlphaReturn("FLUSHING") ELSE AlphaLoop(aloc)
  /\ UNCHANGED <<state, segment, video_flushing, video_eos, video_segment_done,
                 alpha_flushing, alpha_eos, alpha_segment_done, fps_dur, vpc,
                 vloc, vlast, vev, aev, nin>>

\* g_cond_wait may return without a signal
SpuriousWake(c) ==
  /\ UNCHANGED pix
  /\ c \in waiting
  /\ waiting' = waiting \ {c}
  /\ UNCHANGED <<state, shared, fps_dur, lock, vpc, vloc, vlast, apc, aloc,
                 alast, vev, aev, nin>>


\* ----------------------------------------------------------- video events
\* lines 679-687, 641-658: GST_EVENT_CAPS stores the video info (frame rate)
VideoEventCaps(d) ==
  /\ UNCHANGED pix
  /\ PadsActive /\ vpc = "idle" /\ EventBudget
  /\ fps_dur' = d
  /\ UNCHANGED <<state, shared, lock, waiting, vpc, vloc, vlast, apc, aloc,
                 alast, vev, aev>>

\* lines 688-697: GST_EVENT_SEGMENT, the flags reset under the lock
VideoEventSegment(seg) ==
  /\ UNCHANGED pix
  /\ PadsActive /\ vpc = "idle" /\ lock = "free" /\ EventBudget
  /\ video_eos' = FALSE /\ video_segment_done' = FALSE
  /\ vev' = seg /\ vpc' = "ve_segment"
  /\ UNCHANGED <<state, segment, alpha_segment, alpha_buffer, video_flushing,
                 alpha_flushing, alpha_eos, alpha_segment_done, fps_dur, lock,
                 waiting, vloc, vlast, apc, aloc, alast, aev>>

\* lines 699-711: gst_segment_copy_into, the lock not held
VideoEventSegmentCopy ==
  /\ UNCHANGED pix
  /\ vpc = "ve_segment"
  /\ segment' = IF vev.format = "TIME" THEN vev ELSE segment
  /\ vev' = ZeroSegment /\ vpc' = "idle"
  /\ UNCHANGED <<state, alpha_segment, alpha_buffer, video_flushing, video_eos,
                 video_segment_done, alpha_flushing, alpha_eos,
                 alpha_segment_done, fps_dur, lock, waiting, vloc, vlast, apc,
                 aloc, alast, aev, nin>>

\* lines 713-719: GST_EVENT_EOS
VideoEventEOS ==
  /\ UNCHANGED pix
  /\ PadsActive /\ vpc = "idle" /\ lock = "free" /\ EventBudget
  /\ video_eos' = TRUE
  /\ UNCHANGED <<state, segment, alpha_segment, alpha_buffer, video_flushing,
                 video_segment_done, alpha_flushing, alpha_eos,
                 alpha_segment_done, fps_dur, lock, waiting, vpc, vloc, vlast,
                 apc, aloc, alast, vev, aev>>

\* lines 720-726: GST_EVENT_SEGMENT_DONE
VideoEventSegmentDone ==
  /\ UNCHANGED pix
  /\ PadsActive /\ vpc = "idle" /\ lock = "free" /\ EventBudget
  /\ video_segment_done' = TRUE
  /\ UNCHANGED <<state, segment, alpha_segment, alpha_buffer, video_flushing,
                 video_eos, alpha_flushing, alpha_eos, alpha_segment_done,
                 fps_dur, lock, waiting, vpc, vloc, vlast, apc, aloc, alast,
                 vev, aev>>

\* lines 727-734: GST_EVENT_FLUSH_START, not serialized with the chain
VideoEventFlushStart ==
  /\ UNCHANGED pix
  /\ PadsActive /\ lock = "free" /\ EventBudget
  /\ video_flushing' = TRUE
  /\ waiting' = Broadcast(waiting)
  /\ UNCHANGED <<state, segment, alpha_segment, alpha_buffer, video_eos,
                 video_segment_done, alpha_flushing, alpha_eos,
                 alpha_segment_done, fps_dur, lock, vpc, vloc, vlast, apc,
                 aloc, alast, vev, aev>>

\* lines 735-744: GST_EVENT_FLUSH_STOP
VideoEventFlushStop ==
  /\ UNCHANGED pix
  /\ PadsActive /\ vpc = "idle" /\ lock = "free" /\ EventBudget
  /\ video_flushing' = FALSE /\ video_eos' = FALSE
  /\ video_segment_done' = FALSE
  /\ segment' = gst_segment_init("TIME")
  /\ UNCHANGED <<state, alpha_segment, alpha_buffer, alpha_flushing, alpha_eos,
                 alpha_segment_done, fps_dur, lock, waiting, vpc, vloc, vlast,
                 apc, aloc, alast, vev, aev>>

\* ----------------------------------------------------------- alpha events
\* lines 884-892: GST_EVENT_SEGMENT, first critical section
AlphaEventSegment(seg) ==
  /\ UNCHANGED pix
  /\ PadsActive /\ apc = "idle" /\ lock = "free" /\ EventBudget
  /\ alpha_eos' = FALSE /\ alpha_segment_done' = FALSE
  /\ alpha_buffer' = pop_alpha_buffer(alpha_buffer)
  /\ waiting' = pop_alpha_waiting(waiting)
  /\ aev' = seg /\ apc' = "ae_segment"
  /\ UNCHANGED <<state, segment, alpha_segment, video_flushing, video_eos,
                 video_segment_done, alpha_flushing, fps_dur, lock, vpc, vloc,
                 vlast, aloc, alast, vev>>

\* lines 894-905: gst_segment_copy_into under the lock (TIME segments only)
AlphaEventSegmentCopy ==
  /\ UNCHANGED pix
  /\ apc = "ae_segment" /\ lock = "free"
  /\ alpha_segment' = IF aev.format = "TIME" THEN aev ELSE alpha_segment
  /\ aev' = ZeroSegment /\ apc' = "ae_wake"
  /\ UNCHANGED <<state, segment, alpha_buffer, video_flushing, video_eos,
                 video_segment_done, alpha_flushing, alpha_eos,
                 alpha_segment_done, fps_dur, lock, waiting, vpc, vloc, vlast,
                 aloc, alast, vev, nin>>

\* mutant: the event handler returns without the broadcast
AlphaEventWake_silent ==
  /\ UNCHANGED pix
  /\ apc = "ae_wake" /\ lock = "free"
  /\ apc' = "idle"
  /\ UNCHANGED <<state, shared, fps_dur, lock, waiting, vpc, vloc, vlast, aloc,
                 alast, vev, aev, nin>>

\* lines 910-914 (segment) and 928-932 (gap): lock, broadcast, unlock
AlphaEventWake ==
  /\ UNCHANGED pix
  /\ apc = "ae_wake" /\ lock = "free"
  /\ waiting' = Broadcast(waiting)
  /\ apc' = "idle"
  /\ UNCHANGED <<state, shared, fps_dur, lock, vpc, vloc, vlast, aloc, alast,
                 vev, aev, nin>>

\* lines 917-926: GST_EVENT_GAP, the position written with the lock not held
AlphaEventGap(start, duration) ==
  /\ UNCHANGED pix
  /\ PadsActive /\ apc = "idle" /\ EventBudget
  /\ alpha_segment' =
       [alpha_segment EXCEPT !.position =
          IF GST_CLOCK_TIME_IS_VALID(duration) THEN start + duration ELSE start]
  /\ apc' = "ae_wake"
  /\ UNCHANGED <<state, segment, alpha_buffer, video_flushing, video_eos,
                 video_segment_done, alpha_flushing, alpha_eos,
                 alpha_segment_done, fps_dur, lock, waiting, vpc, vloc, vlast,
                 aloc, alast, vev, aev>>

\* mutant: the flush-stop on the alpha pad leaves the EOS flag as it is
AlphaEventFlushStop_eos ==
  /\ UNCHANGED pix
  /\ PadsActive /\ apc = "idle" /\ lock = "free" /\ EventBudget
  /\ alpha_flushing' = FALSE
  /\ alpha_segment_done' = FALSE
  /\ alpha_buffer' = pop_alpha_buffer(alpha_buffer)
  /\ waiting' = pop_alpha_waiting(waiting)
  /\ alpha_segment' = gst_segment_init("TIME")
  /\ UNCHANGED <<state, segment, video_flushing, video_eos, video_segment_done,
                 alpha_eos, fps_dur, lock, vpc, vloc, vlast, apc, aloc, alast,
                 vev, aev>>

\* lines 938-949: GST_EVENT_FLUSH_STOP
AlphaEventFlushStop ==
  /\ UNCHANGED pix
  /\ PadsActive /\ apc = "idle" /\ lock = "free" /\ EventBudget
  /\ alpha_flushing' = FALSE /\ alpha_eos' = FALSE
  /\ alpha_segment_done' = FALSE
  /\ alpha_buffer' = pop_alpha_buffer(alpha_buffer)
  /\ waiting' = pop_alpha_waiting(waiting)
  /\ alpha_segment' = gst_segment_init("TIME")
  /\ UNCHANGED <<state, segment, video_flushing, video_eos, video_segment_done,
                 fps_dur, lock, vpc, vloc, vlast, apc, aloc, alast, vev, aev>>

\* lines 950-958: GST_EVENT_FLUSH_START, not serialized with the chain
AlphaEventFlushStart ==
  /\ UNCHANGED pix
  /\ PadsActive /\ lock = "free" /\ EventBudget
  /\ alpha_flushing' = TRUE
  /\ waiting' = Broadcast(waiting)
  /\ UNCHANGED <<state, segment, alpha_segment, alpha_buffer, video_flushing,
                 video_eos, video_segment_done, alpha_eos, alpha_segment_done,
                 fps_dur, lock, vpc, vloc, vlast, apc, aloc, alast, vev, aev>>

\* lines 959-969: GST_EVENT_SEGMENT_DONE
AlphaEventSegmentDone ==
  /\ UNCHANGED pix
  /\ PadsActive /\ apc = "idle" /\ lock = "free" /\ EventBudget
  /\ alpha_segment_done' = TRUE
  /\ waiting' = Broadcast(waiting)
  /\ UNCHANGED <<state, segment, alpha_segment, alpha_buffer, video_flushing,
                 video_eos, video_segment_done, alpha_flushing, alpha_eos,
                 fps_dur, lock, vpc, vloc, vlast, apc, aloc, alast, vev, aev>>

\* lines 970-980: GST_EVENT_EOS
AlphaEventEOS ==
  /\ UNCHANGED pix
  /\ PadsActive /\ apc = "idle" /\ lock = "free" /\ EventBudget
  /\ alpha_eos' = TRUE
  /\ waiting' = Broadcast(waiting)
  /\ UNCHANGED <<state, segment, alpha_segment, alpha_buffer, video_flushing,
                 video_eos, video_segment_done, alpha_flushing,
                 alpha_segment_done, fps_dur, lock, vpc, vloc, vlast, apc,
                 aloc, alast, vev, aev>>

\* lines 1005-1017: the alpha pad is unlinked, the lock not held
AlphaPadUnlink ==
  /\ UNCHANGED pix
  /\ apc = "idle" /\ EventBudget
  /\ alpha_segment' = gst_segment_init("UNDEFINED")
  /\ UNCHANGED <<state, segment, alpha_buffer, video_flushing, video_eos,
                 video_segment_done, alpha_flushing, alpha_eos,
                 alpha_segment_done, fps_dur, lock, waiting, vpc, vloc, vlast,
                 apc, aloc, alast, vev, aev>>

\* ------------------------------------------------------------ state change
\* lines 1050-1059: GST_STATE_CHANGE_PAUSED_TO_READY, before the parent class
ChangeStatePausedToReady ==
  /\ UNCHANGED pix
  /\ state = "PAUSED" /\ lock = "free" /\ EventBudget
  /\ alpha_flushing' = TRUE /\ video_flushing' = TRUE
  /\ alpha_buffer' = pop_alpha_buffer(alpha_buffer)
  /\ waiting' = pop_alpha_waiting(waiting)
  /\ state' = "STOPPING"
  /\ UNCHANGED <<segment, alpha_segment, video_eos, video_segment_done,
                 alpha_eos, alpha_segment_done, fps_dur, lock, vpc, vloc,
                 vlast, apc, aloc, alast, vev, aev>>

\* line 1064: the parent class deactivates the pads, which waits for both
\* streaming contexts to leave the element
PadsDeactivated ==
  /\ UNCHANGED pix
  /\ state = "STOPPING" /\ vpc = "idle" /\ apc = "idle"
  /\ state' = "READY"
  /\ UNCHANGED <<shared, fps_dur, lock, waiting, vpc, vloc, vlast, apc, aloc,
                 alast, vev, aev, nin>>

\* lines 1064-1078: GST_STATE_CHANGE_READY_TO_PAUSED, after the parent class
ChangeStateReadyToPaused ==
  /\ UNCHANGED pix
  /\ state = "READY" /\ lock = "free"
  /\ alpha_flushing' = FALSE /\ video_flushing' = FALSE
  /\ video_eos' = FALSE /\ alpha_eos' = FALSE
  /\ segment' = gst_segment_init("TIME")
  /\ alpha_segment' = gst_segment_init("TIME")
  /\ state' = "PAUSED"
  /\ UNCHANGED <<alpha_buffer, video_segment_done, alpha_segment_done, fps_dur,
                 lock, waiting, vpc, vloc, vlast, apc, aloc, alast, vev, aev, nin>>

\* ------------------------------------------------------------ specification
Next ==
  \/ \E ts \in Stamps, dur \in Durations : VideoChain(ts, dur)
  \/ VideoLock
  \/ VideoDecide
  \/ VideoWake
  \/ \E obuffer \in ConvertResults, r \in FlowReturns :
        VideoPushFrame(obuffer, r)
  \/ VideoPopAlpha
  \/ \E r \in FlowReturns : VideoForward(r)
  \/ VideoUpdatePosition
  \/ \E ts \in Stamps, dur \in Durations : AlphaChain(ts, dur)
  \/ AlphaWake
  \/ \E c \in {"video", "alpha"} : SpuriousWake(c)
  \/ \E d \in FrameDurations : VideoEventCaps(d)
  \/ \E seg \in SegmentEvents : VideoEventSegment(seg)
  \/ VideoEventSegmentCopy
  \/ VideoEventEOS
  \/ VideoEventSegmentDone
  \/ VideoEventFlushStart
  \/ VideoEventFlushStop
  \/ \E seg \in SegmentEvents : AlphaEventSegment(seg)
  \/ AlphaEventSegmentCopy
  \/ AlphaEventWake
  \/ \E start \in Times \ {0}, duration \in {1, NONE} : AlphaEventGap(start, duration)
  \/ AlphaEventFlushStop
  \/ AlphaEventFlushStart
  \/ AlphaEventSegmentDone
  \/ AlphaEventEOS
  \/ AlphaPadUnlink
  \/ ChangeStatePausedToReady
  \/ PadsDeactivated
  \/ ChangeStateReadyToPaused

Spec == Init /\ [][Next]_vars

\* the scheduling the liveness claims rely on: a context that holds the mutex
\* goes on to the end of its critical section (lines 484-604), a context
\* woken on the condition re-acquires the mutex and runs again (g_cond_wait
\* returning, lines 595 and 815), the alpha context even if the video context
\* takes the mutex again and again in between
FairSpec ==
  /\ Spec
  /\ WF_vars(VideoDecide)
  /\ WF_vars(VideoWake)
  /\ SF_vars(AlphaWake)


\* ================================================================= claims

\* ------------------------------------------------------ alpha copy routines
MaxWidth == 8
MaxHeight == 2
MaxPad == 1
MaxSeed == 1

\* plane memory: a function from byte offsets 0..n-1 to bytes; the stores of
\* a routine are applied in program order
RECURSIVE Store(_, _)
Store(mem, writes) ==
  IF writes = <<>> THEN mem
  ELSE Store([mem EXCEPT ![Head(writes)[1]] = Head(writes)[2]], Tail(writes))

\* lines 101-114: one byte per pixel, dst[j * 4] = src[j]
copy_alpha_packed_u1(dst, dstride, src, sstride, width, height) ==
  Store(dst, [n \in 1..(height * width) |->
                LET i == (n - 1) \div width
                    j == (n - 1) % width
                IN <<i * dstride + j * 4, src[i * sstride + j]>>])

\* guint32 c = sd[j] / guint64 c = sd[j]: the value of the word of size bytes
\* at offset base, as its base-256 digits, least significant first; which
\* byte of memory is the least significant one depends on the byte order of
\* the machine
LoadWord(src, base, size, endian) ==
  [b \in 1..size |-> IF endian = "little" THEN src[base + b - 1]
                     ELSE src[base + size - b]]

\* the loops of lines 116-176: per row, width / size words; digit k of the
\* word (c & 0xff after k shifts c >>= 8) is stored at dd[4 * k], and dd
\* advances by 4 * size per word
copy_alpha_packed_words(dst, dstride, src, sstride, width, height, endian, size) ==
  LET w == width \div size
  IN Store(dst, [n \in 1..(height * w * size) |->
                   LET i == (n - 1) \div (w * size)
                       j == ((n - 1) % (w * size)) \div size
                       k == (n - 1) % size
                       c == LoadWord(src, i * sstride + j * size, size, endian)
                   IN <<i * dstride + j * 4 * size + 4 * k, c[k + 1]>>])

\* mutant: the bytes of a word are stored one byte further into each pixel
copy_alpha_packed_u4_off(dst, dstride, src, sstride, width, height, endian) ==
  LET w == width \div 4
  IN Store(dst, [n \in 1..(height * w * 4) |->
                   LET i == (n - 1) \div (w * 4)
                       j == ((n - 1) % (w * 4)) \div 4
                       k == (n - 1) % 4
                       c == LoadWord(src, i * sstride + j * 4, 4, endian)
                   IN <<i * dstride + j * 16 + 4 * k + 1, c[k + 1]>>])

\* lines 116-141: four pixels per 32-bit read, w = width >> 2
copy_alpha_packed_u4(dst, dstride, src, sstride, width, height, endian) ==
  copy_alpha_packed_words(dst, dstride, src, sstride, width, height, endian, 4)

\* lines 143-176: eight pixels per 64-bit read, w = width >> 3
copy_alpha_packed_u8(dst, dstride, src, sstride, width, height, endian) ==
  copy_alpha_packed_words(dst, dstride, src, sstride, width, height, endian, 8)

\* lines 178-205: the routine is chosen on the width
copy_alpha_packed(dst, dstride, src, sstride, width, height, endian) ==
  IF width % 4 # 0
  THEN copy_alpha_packed_u1(dst, dstride, src, sstride, width, height)
  ELSE IF width % 8 # 0
  THEN copy_alpha_packed_u4(dst, dstride, src, sstride, width, height, endian)
  ELSE copy_alpha_packed_u8(dst, dstride, src, sstride, width, height, endian)

\* mutant: rows of width bytes are copied whatever the strides
copy_alpha_planar_rows(dst, dstride, src, sstride, width, height) ==
  Store(dst, [n \in 1..(height * width) |->
                LET i == (n - 1) \div width
                    j == (n - 1) % width
                IN <<i * dstride + j, src[i * sstride + j]>>])

\* lines 207-238: memcpy of h * ss bytes when the strides are equal, else
\* memcpy of w bytes per row
copy_alpha_planar(dst, dstride, src, sstride, width, height) ==
  IF sstride = dstride
  THEN Store(dst, [n \in 1..(height * sstride) |-> <<n - 1, src[n - 1]>>])
  ELSE Store(dst, [n \in 1..(height * width) |->
                     LET i == (n - 1) \div width
                         j == (n - 1) % width
                     IN <<i * dstride + j, src[i * sstride + j]>>])

\* the alpha plane handed in (aframe->data[0]) and the output plane as the
\* converter left it (oframe->data[plane]), padding bytes included
AlphaPlane(f) == [k \in 0..(f.h * f.ss - 1) |-> (f.seed + 7 * k) % 256]

OutputPlane(f) == [k \in 0..(f.h * f.ds - 1) |-> (200 + 3 * k) % 256]

\* the frames of a composite: output layout, byte order of the machine,
\* width and height of the alpha component, strides of the two planes
PixInputs ==
  { [oformat |-> fmt, endian |-> e, w |-> w, h |-> h, ss |-> w + sp,
     ds |-> (IF fmt = "A420" THEN w ELSE 4 * w) + dp, seed |-> sd,
     done |-> FALSE, out |-> <<>>] :
      fmt \in {"A420", "ARGB"}, e \in {"little", "big"}, w \in 1..MaxWidth,
      h \in 1..MaxHeight, sp \in 0..MaxPad, dp \in 0..MaxPad, sd \in 0..MaxSeed }

PixInit == InitElement /\ pix \in PixInputs

\* lines 270-271: oformat A420, the alpha plane goes to plane 3
CopyAlphaPlanar ==
  /\ pix.oformat = "A420" /\ ~pix.done
  /\ pix' = [pix EXCEPT !.done = TRUE,
                        !.out = copy_alpha_planar(OutputPlane(pix), pix.ds,
                                                  AlphaPlane(pix), pix.ss,
                                                  pix.w, pix.h)]
  /\ UNCHANGED element_vars

\* lines 272-273: the packed layouts
CopyAlphaPacked ==
  /\ pix.oformat # "A420" /\ ~pix.done
  /\ pix' = [pix EXCEPT !.done = TRUE,
                        !.out = copy_alpha_packed(OutputPlane(pix), pix.ds,
                                                  AlphaPlane(pix), pix.ss,
                                                  pix.w, pix.h, pix.endian)]
  /\ UNCHANGED element_vars

PixNext == CopyAlphaPlanar \/ CopyAlphaPacked

PixSpec == PixInit /\ [][PixNext]_vars

\* C1: the slot is filled only when it is empty (never overwritten); an alpha
\* context in the wait loop leaves it only by storing its own buffer into the
\* empty slot or, the alpha stream flushing, by returning FLUSHING; while the
\* slot is occupied and the stream is not flushing it stays blocked and keeps
\* its buffer.
C1_SlotFilledOnlyWhenEmpty ==
  [][ /\ (alpha_buffer' # alpha_buffer /\ alpha_buffer' # NoBuf
            => alpha_buffer = NoBuf)
      /\ (apc = "a_wait" /\ apc' # "a_wait"
            => \/ (alpha_buffer = NoBuf /\ alpha_buffer' = aloc
                     /\ alast'.ret = "OK")
               \/ (alpha_flushing /\ alast'.ret = "FLUSHING"
                     /\ alpha_buffer' = alpha_buffer))
      /\ (apc = "a_wait" /\ alpha_buffer # NoBuf /\ ~alpha_flushing
            => apc' = "a_wait" /\ aloc' = aloc) ]_vars

\* the alpha context is blocked with its buffer while the slot is occupied
C1_Witness ==
  /\ apc = "a_wait" /\ "alpha" \in waiting
  /\ alpha_buffer # NoBuf /\ aloc # NoBuf /\ aloc.id # alpha_buffer.id

\* C2: the video context is suspended on the condition only while the slot is
\* empty and the alpha context only while it is occupied, so the two are never
\* suspended on it together.
C2_NoMutualWait ==
  /\ ("video" \in waiting => vpc = "v_wait" /\ alpha_buffer = NoBuf)
  /\ ("alpha" \in waiting => apc = "a_wait" /\ alpha_buffer # NoBuf)
  /\ ~({"video", "alpha"} \subseteq waiting)

\* both contexts are inside g_cond_wait, the video context already signalled
C2_Witness ==
  /\ vpc = "v_wait" /\ apc = "a_wait"
  /\ "alpha" \in waiting /\ "video" \notin waiting


\* ---- the intervals the claims speak of: the accepted video buffer with its
\* stamps as rewritten by the clipping (its estimated end if it carries no
\* duration), and the alpha buffer held in the slot
VideoBufferEnd == IF vloc.dur # NONE THEN vloc.ts + vloc.dur ELSE vloc.stop

VRunStart == gst_segment_to_running_time(segment, vloc.ts)

VRunEnd == gst_segment_to_running_time(segment, VideoBufferEnd)

AlphaHeldValid ==
  alpha_buffer # NoBuf /\ alpha_buffer.ts # NONE /\ alpha_buffer.dur # NONE

ARunStart == gst_segment_to_running_time(alpha_segment, alpha_buffer.ts)

ARunEnd ==
  gst_segment_to_running_time(alpha_segment, alpha_buffer.ts + alpha_buffer.dur)

\* the step in which the video context takes its decision (lines 486-604),
\* past the flushing and EOS checks
Deciding ==
  vpc = "v_decide" /\ vpc' # "v_decide" /\ ~video_flushing /\ ~video_eos

\* C3: when the held alpha buffer (valid timing) ends at or before the start
\* of the video buffer on the running-time axis, the decision releases it
\* (broadcasting), pushes nothing, keeps the video buffer with its locals, and
\* goes back to wait_for_alpha_buf, from where the decision is taken again.
C3_StaleAlphaReleased ==
  [][ /\ (Deciding /\ AlphaHeldValid /\ ARunEnd # NONE /\ VRunStart # NONE
            /\ ARunEnd <= VRunStart
            => /\ alpha_buffer' = NoBuf /\ waiting' = {}
               /\ vloc' = vloc /\ vloc.out = "none" /\ vloc.pair = 0
               /\ vpc' = "v_lock" /\ vlast'.ret = "none")
      /\ (vpc = "v_lock" /\ vpc' # "v_lock"
            => vpc' = "v_decide" /\ vloc' = vloc /\ lock' = "video") ]_vars

\* a stale alpha buffer has just been released for a video buffer that lies
\* inside the segment; the video context is back at wait_for_alpha_buf
C3_Witness ==
  /\ vpc = "v_lock" /\ vlast.branch = "stale" /\ alpha_buffer = NoBuf
  /\ lock = "free" /\ vloc.out = "none"
  /\ vloc.start = vloc.ts /\ segment.start <= vloc.ts

\* C4: when the video buffer ends at or before the start of the held alpha
\* buffer (valid timing) on the running-time axis, the decision drops the video
\* buffer: nothing is pushed, the result is OK, the alpha buffer stays.
C4_PrematureVideoDropped ==
  [][ Deciding /\ AlphaHeldValid /\ ARunStart # NONE /\ VRunEnd # NONE
        /\ VRunEnd <= ARunStart
        => /\ alpha_buffer' = alpha_buffer
           /\ vpc' = "v_pos" /\ vlast'.ret = "OK" /\ vloc'.out = "none" ]_vars

\* C5: when the accepted video buffer and the held alpha buffer (valid
\* timing) overlap on the running-time axis, the decision takes the emit
\* branch, never the stale-release or the drop-video branch.
C5_OverlapEmits ==
  [][ Deciding /\ AlphaHeldValid
        /\ ARunStart # NONE /\ ARunEnd # NONE
        /\ VRunStart # NONE /\ VRunEnd # NONE
        /\ ARunStart < VRunEnd /\ VRunStart < ARunEnd
        => vpc' = "v_push" /\ alpha_buffer' = alpha_buffer ]_vars

\* C6: in the emit branch the alpha buffer (valid timing) is marked for
\* release iff it ends at or before the end of the video buffer on the
\* running-time axis; the push leaves the slot alone; a marked buffer is then
\* released under the lock, an unmarked one is left in the slot on return.
C6_ReleaseIffConsumed ==
  [][ /\ (Deciding /\ AlphaHeldValid /\ vpc' = "v_push"
            /\ ARunStart # NONE /\ ARunEnd # NONE
            /\ VRunStart # NONE /\ VRunEnd # NONE
            /\ ARunStart < VRunEnd /\ VRunStart < ARunEnd
            => (vloc'.pop_alpha <=> ARunEnd <= VRunEnd))
      /\ (vpc = "v_push" /\ vpc' # "v_push"
            => /\ alpha_buffer' = alpha_buffer
               /\ vpc' = IF vloc.pop_alpha THEN "v_pop" ELSE "v_pos")
      /\ (vpc = "v_pop" /\ vpc' # "v_pop" => alpha_buffer' = NoBuf)
      /\ (vpc = "v_pos" /\ vpc' # "v_pos" => alpha_buffer' = alpha_buffer)
    ]_vars


\* C7: the PAUSED->READY transition sets both flushing flags, empties the slot
\* and broadcasts, leaving the streaming contexts where they are; a context
\* blocked inside the element at that time eventually returns FLUSHING, the
\* video context without having pushed its buffer, the alpha context without
\* having stored its buffer.
C7_StopFlushes ==
  /\ [][ state = "PAUSED" /\ state' = "STOPPING"
           => /\ video_flushing' /\ alpha_flushing'
              /\ alpha_buffer' = NoBuf /\ waiting' = {}
              /\ vpc' = vpc /\ apc' = apc ]_vars
  /\ [][ /\ (state = "STOPPING" /\ vpc = "v_wait" /\ video_flushing
                => video_flushing' /\ vpc' \in {"v_wait", "v_decide"})
         /\ (state = "STOPPING" /\ apc = "a_wait" /\ alpha_flushing
                => alpha_flushing' /\ alpha_buffer' = alpha_buffer) ]_vars
  /\ (state = "STOPPING" /\ vpc = "v_wait" /\ video_flushing)
        ~> (vpc = "idle" /\ vlast.ret = "FLUSHING" /\ vlast.branch = "flushing")
  /\ (state = "STOPPING" /\ apc = "a_wait" /\ alpha_flushing)
        ~> (apc = "idle" /\ alast.ret = "FLUSHING" /\ ~alast.stored)

\* the transition has run while the alpha context was blocked on a full slot
C7_Witness ==
  /\ state = "STOPPING" /\ apc = "a_wait" /\ aloc # NoBuf
  /\ waiting = {} /\ alpha_buffer = NoBuf
  /\ video_flushing /\ alpha_flushing

\* C8: whatever raises a stream's flushing flag broadcasts; a context of that
\* stream blocked inside the element stays put until it is woken, finds the
\* flag still set and returns FLUSHING, and it eventually does: the video
\* chain has pushed nothing for the buffer it held, the alpha chain has not
\* stored the buffer it was handing over.
C8_FlushStartUnblocks ==
  /\ [][ /\ (~video_flushing /\ video_flushing' => waiting' = {} /\ vpc' = vpc)
         /\ (~alpha_flushing /\ alpha_flushing' => waiting' = {} /\ apc' = apc)
         /\ (vpc = "v_wait" /\ video_flushing
               => /\ video_flushing' /\ vpc' \in {"v_wait", "v_decide"}
                  /\ vloc' = vloc /\ vloc.out = "none")
         /\ (vpc = "v_decide" /\ vpc' # "v_decide" /\ video_flushing
               => /\ vpc' = "idle" /\ vlast'.ret = "FLUSHING"
                  /\ vloc.out = "none" /\ alpha_buffer' = alpha_buffer)
         /\ (apc = "a_wait" /\ alpha_flushing /\ apc' = "a_wait"
               => alpha_flushing' /\ aloc' = aloc)
         /\ (apc = "a_wait" /\ alpha_flushing /\ apc' # "a_wait"
               => /\ apc' = "idle" /\ alast'.ret = "FLUSHING"
                  /\ ~alast'.stored /\ alpha_buffer' = alpha_buffer) ]_vars
  /\ (vpc = "v_wait" /\ video_flushing)
        ~> (vpc = "idle" /\ vlast.ret = "FLUSHING")
  /\ (apc = "a_wait" /\ alpha_flushing)
        ~> (apc = "idle" /\ alast.ret = "FLUSHING")

\* a video flush-start has arrived, in the PAUSED state, while the video
\* context was blocked waiting for an alpha buffer
C8_Witness ==
  /\ state = "PAUSED" /\ vpc = "v_wait" /\ video_flushing /\ ~alpha_flushing
  /\ waiting = {} /\ lock = "free"

\* C9: whenever the alpha flushing flag is raised the held alpha buffer is
\* released, and a video decision taken while the flag is set finds the slot
\* empty, so it never goes on to composite with a buffer held from before
\* the flush.
C9_NoHeldAlphaWhileFlushing ==
  [][ Deciding /\ alpha_flushing
        => alpha_buffer = NoBuf /\ vpc' # "v_push" ]_vars

\* C10: no shared field (the two segments with their positions, the slot,
\* the six flags) is written while another context holds the mutex: every
\* step taken while the video context is inside its critical section leaves
\* them all unchanged.
C10_WritesUnderLock ==
  [][ lock = "video" /\ lock' = "video" => UNCHANGED shared ]_vars

\* C11: from the moment the decision leaves the critical section to have the
\* frame composited until gst_alpha_mask_push_frame has read the slot, the
\* slot keeps the very buffer the decision examined: no other context
\* releases it under the reader.
C11_HeldWhileComposited ==
  vpc = "v_push" => alpha_buffer # NoBuf /\ alpha_buffer.id = vloc.seen

\* the video chain call in progress ends here
VideoReturns == vpc # "idle" /\ vpc' = "idle"

\* C12 as stated: a call pushes at most once, the video context itself
\* pushes, and every call that gets past the flushing and EOS checks and is
\* not dropped by the alpha-in-future rule has pushed exactly one buffer when
\* it returns.
C12_ExactlyOnePush ==
  [][ /\ (vloc'.out # vloc.out
            => \/ (vloc.out = "none" /\ vpc \in {"v_push", "v_fwd"})
               \/ (vloc'.out = "none" /\ VideoReturns))
      /\ (vpc \in {"v_push", "v_fwd"} /\ vpc' # vpc => vloc'.out # "none")
      /\ (VideoReturns /\ vpc = "v_pos" /\ vlast.branch \in {"emit", "nowait"}
            => vloc.out # "none") ]_vars

\* C12 amended: as above, except that in the emit branch a video frame that
\* cannot be mapped leaves gst_alpha_mask_convert without an output buffer:
\* nothing is pushed for it and the call still returns OK.
C12_OnePushUnlessUnmappable ==
  [][ /\ (vloc'.out # vloc.out
            => \/ (vloc.out = "none" /\ vpc \in {"v_push", "v_fwd"})
               \/ (vloc'.out = "none" /\ VideoReturns))
      /\ (vpc = "v_fwd" /\ vpc' # vpc => vloc'.out = "plain")
      /\ (\A r \in FlowReturns :
            VideoPushFrame("obuf", r) => vloc'.out = "comp" /\ vlast'.ret = r)
      /\ (VideoPushFrame("NULL", "OK")
            => vloc'.out = "none" /\ vlast'.ret = "OK")
      /\ (vpc = "v_push" /\ vpc' # vpc
            => vloc'.out = "comp" \/ (vloc'.out = "none" /\ vlast'.ret = "OK"))
      /\ (VideoReturns /\ vpc = "v_pos" /\ vlast.branch = "nowait"
            => vloc.out = "plain")
      /\ (VideoReturns /\ vpc = "v_pos" /\ vlast.branch = "future"
            => vloc.out = "none")
      /\ (VideoReturns /\ vpc = "v_decide" => vloc.out = "none") ]_vars

\* a call that took the emit branch is about to return OK having pushed
\* nothing, its frame could not be mapped
C12_Witness ==
  /\ vpc = "v_pos" /\ vlast.branch = "emit" /\ vloc.out = "none"
  /\ vlast.ret = "OK"

\* a video buffer with stamps ts and dur that has no timestamp, or whose
\* interval has no overlap with the video segment
VideoDiscarded(ts, dur) ==
  \/ ts = NONE
  \/ segment.format # "TIME"
  \/ segment.stop # NONE
       /\ (ts > segment.stop \/ (ts = segment.stop /\ segment.start # segment.stop))
  \/ dur # NONE
       /\ (ts + dur < segment.start \/ (ts + dur = segment.start /\ dur # 0))
  \/ dur = NONE /\ ts < segment.start

\* C13: a video buffer without timestamp, or outside the video segment, is
\* discarded on arrival: the call returns OK at once, the buffer's stamps
\* are not rewritten, nothing is pushed, and the slot, the flags of both
\* streams, both segments (the position included), the mutex and the blocked
\* contexts are left as they were.
C13_DiscardLeavesNoTrace ==
  [][ \A ts \in Stamps, dur \in Durations :
        VideoChain(ts, dur) /\ VideoDiscarded(ts, dur)
          => /\ vpc' = "idle" /\ vlast'.ret = "OK"
             /\ vloc' = NoLoc /\ vloc'.out = "none"
             /\ UNCHANGED <<shared, lock, waiting, apc, aloc, state>> ]_vars

\* a video buffer has been discarded as out of segment while the slot held
\* an alpha buffer and the video segment had a start and a stop
C13_Witness ==
  /\ vpc = "idle" /\ vlast = [ret |-> "OK", branch |-> "out_of_segment"]
  /\ alpha_buffer # NoBuf /\ segment.start > 0 /\ segment.stop # NONE

\* the plane a per-row loop of pix.w bytes per row leaves: byte j of row i
\* (j < w) comes from the alpha plane, every other byte is as it was
NaiveRowCopy ==
  [k \in DOMAIN OutputPlane(pix) |->
     IF k % pix.ds < pix.w
     THEN AlphaPlane(pix)[(k \div pix.ds) * pix.ss + (k % pix.ds)]
     ELSE OutputPlane(pix)[k]]

\* C14 as stated: for every width, height and pair of strides, the plane
\* copy_alpha_planar leaves is byte for byte the plane the per-row loop
\* leaves, the equal-stride bulk copy included.
C14_PlanarIsRowCopy ==
  pix.oformat = "A420" /\ pix.done => pix.out = NaiveRowCopy

\* C14 amended: inside the width columns of every row the plane is the one of
\* the per-row loop; with different strides so are the padding bytes (left
\* untouched); with equal strides the bulk copy also overwrites the padding
\* bytes of the output rows with those of the alpha plane.
C14_PlanarIsRowCopyInsideWidth ==
  pix.oformat = "A420" /\ pix.done
    => /\ \A k \in DOMAIN pix.out :
            k % pix.ds < pix.w => pix.out[k] = NaiveRowCopy[k]
       /\ pix.ss # pix.ds => pix.out = NaiveRowCopy
       /\ pix.ss = pix.ds => pix.out = AlphaPlane(pix)

\* the bulk copy has run on planes whose common stride is larger than the
\* width, and has changed a padding byte
C14_Witness ==
  /\ pix.oformat = "A420" /\ pix.done
  /\ pix.ss = pix.ds /\ pix.ss > pix.w /\ pix.h > 1
  /\ pix.out # NaiveRowCopy

\* C15: copy_alpha_packed changes nothing but byte 0 of the pixels inside the
\* width of each row: bytes 1 to 3 of every pixel, and the bytes past the
\* width, are as the converter left them, whichever routine the width
\* selects.
C15_PackedWritesAlphaByteOnly ==
  pix.oformat = "ARGB" /\ pix.done
    => /\ DOMAIN pix.out = DOMAIN OutputPlane(pix)
       /\ \A k \in DOMAIN pix.out :
            (k % pix.ds) % 4 # 0 \/ (k % pix.ds) \div 4 >= pix.w
              => pix.out[k] = OutputPlane(pix)[k]
       /\ \A i \in 0..(pix.h - 1), j \in 0..(pix.w - 1) :
            \E a \in 0..(pix.w - 1) :
              pix.out[i * pix.ds + 4 * j] = AlphaPlane(pix)[i * pix.ss + a]

\* the 32-bit routine has run on a frame with padding in both planes
C15_Witness ==
  /\ pix.oformat = "ARGB" /\ pix.done /\ pix.w % 4 = 0 /\ pix.w % 8 # 0
  /\ pix.ds > 4 * pix.w /\ pix.ss > pix.w /\ pix.h > 1
  /\ pix.out # OutputPlane(pix)

\* C16: whatever routine copy_alpha_packed selects on the width, the plane it
\* leaves is byte for byte the plane copy_alpha_packed_u1 leaves on the same
\* input.
C16_BatchedIsBytewise ==
  pix.oformat = "ARGB" /\ pix.done
    => pix.out = copy_alpha_packed_u1(OutputPlane(pix), pix.ds,
                                      AlphaPlane(pix), pix.ss, pix.w, pix.h)

\* C17: a decision that finds the slot empty after the alpha stream has
\* signalled EOS or segment-done does not block but goes on to forward the
\* video buffer, which leaves without an alpha buffer paired to it; raising
\* either flag wakes every blocked context, so no video context is left
\* blocked and unsignalled while one of the flags is set.
C17_NoWaitAfterAlphaEnd ==
  [][ /\ (Deciding /\ alpha_buffer = NoBuf /\ (alpha_eos \/ alpha_segment_done)
            => vpc' = "v_fwd" /\ waiting' = waiting /\ vloc' = vloc)
      /\ (vpc = "v_fwd" /\ vpc' # "v_fwd"
            => /\ vloc'.out = "plain" /\ vloc'.pair = 0
               /\ vloc'.ts = vloc.ts /\ vloc'.dur = vloc.dur
               /\ alpha_buffer' = alpha_buffer)
      /\ ((~alpha_eos /\ alpha_eos') \/ (~alpha_segment_done /\ alpha_segment_done')
            => waiting' = {} /\ vpc' = vpc)
      /\ (vpc = "v_wait" /\ "video" \in waiting
            => ~alpha_eos /\ ~alpha_segment_done) ]_vars

\* the video context is about to forward its buffer because the alpha stream
\* has ended, its running time being neither before the alpha segment's
\* start nor before its position
C17_Witness ==
  /\ vpc = "v_fwd" /\ alpha_buffer = NoBuf /\ vlast.branch = "nowait"
  /\ (alpha_eos \/ alpha_segment_done)
  /\ alpha_segment = gst_segment_init("TIME")

\* C18: a decision that finds the slot empty, the alpha stream not ended,
\* forwards the video buffer without waiting exactly when the alpha segment
\* is in TIME format and the running time of the video buffer is strictly
\* before that of the alpha segment's start or of its position, whichever of
\* the two is defined; otherwise the video context blocks on the condition.
C18_SkipWaitBeforeAlphaPosition ==
  [][ Deciding /\ alpha_buffer = NoBuf /\ ~alpha_eos /\ ~alpha_segment_done
        => LET v == gst_segment_to_running_time(segment, vloc.ts)
               s == gst_segment_to_running_time(alpha_segment,
                                                alpha_segment.start)
               p == gst_segment_to_running_time(alpha_segment,
                                                alpha_segment.position)
               skip == /\ alpha_segment.format = "TIME"
                       /\ \/ (s # NONE /\ v < s)
                          \/ (p # NONE /\ v < p)
           IN /\ v # NONE
              /\ skip => vpc' = "v_fwd" /\ waiting' = waiting
              /\ ~skip => vpc' = "v_wait" /\ waiting' = waiting \cup {"video"}
              /\ vloc' = vloc /\ alpha_buffer' = NoBuf ]_vars

\* the video context is about to forward its buffer, the alpha stream not
\* ended, because the alpha position is already past the buffer
C18_Witness ==
  /\ vpc = "v_fwd" /\ alpha_buffer = NoBuf /\ vlast.branch = "nowait"
  /\ ~alpha_eos /\ ~alpha_segment_done
  /\ alpha_segment.format = "TIME" /\ alpha_segment.position > vloc.ts

\* C19: the retry loop of the video chain function does not spin. The
\* decision is entered only with the lock, by a new call, after a stale alpha
\* buffer was released, or after the wait on the condition; a pass that jumps
\* back without waiting has taken a buffer out of the slot, and the slot is
\* filled again only by the alpha context storing a buffer it was given; a
\* pass that waits has registered on the condition and dropped the lock; and
\* every pass looks at flushing and EOS before anything else.
C19_RetryReleasesOrWaits ==
  [][ /\ (vpc # "v_decide" /\ vpc' = "v_decide"
            => /\ lock = "free" /\ lock' = "video"
               /\ \/ vpc = "idle"
                  \/ vpc = "v_lock" /\ vlast.branch = "stale" /\ vloc' = vloc
                  \/ vpc = "v_wait" /\ vlast.branch = "wait"
                       /\ "video" \notin waiting /\ vloc' = vloc)
      /\ (vpc = "v_decide" /\ vpc' = "v_lock"
            => /\ alpha_buffer # NoBuf /\ alpha_buffer' = NoBuf
               /\ ~video_flushing /\ ~video_eos)
      /\ (vpc = "v_decide" /\ vpc' = "v_wait"
            => /\ alpha_buffer = NoBuf /\ "video" \in waiting'
               /\ lock' = "free" /\ ~video_flushing /\ ~video_eos)
      /\ (vpc = "v_decide" /\ vpc' # "v_decide"
            => /\ lock = "video"
               /\ video_flushing => vpc' = "idle" /\ vlast'.ret = "FLUSHING"
               /\ ~video_flushing /\ video_eos
                    => vpc' = "idle" /\ vlast'.ret = "EOS")
      /\ (alpha_buffer = NoBuf /\ alpha_buffer' # NoBuf
            => /\ apc \in {"idle", "a_wait"} /\ apc' = "idle"
               /\ alast'.stored
               /\ alpha_buffer'.id \notin {vloc.seen, vloc.pair}) ]_vars

\* the video context is back at the decision after it released a stale alpha
\* buffer, and the alpha context has supplied the next one meanwhile
C19_Witness ==
  /\ vpc = "v_decide" /\ vlast.branch = "stale" /\ alpha_buffer # NoBuf
  /\ lock = "video"

\* lines 928-932: the alpha event handler, having written the position,
\* goes on to take the lock, which is free whenever the video context waits;
\* line 602: the video context, the lock dropped, goes on to push
GapFairSpec ==
  /\ FairSpec
  /\ WF_vars(AlphaEventWake)
  /\ WF_vars(\E r \in FlowReturns : VideoForward(r))

\* the video buffer in hand lies, in running time, before the position of
\* the alpha segment
BeforeAlphaPosition ==
  /\ alpha_segment.format = "TIME"
  /\ LET v == gst_segment_to_running_time(segment, vloc.ts)
         p == gst_segment_to_running_time(alpha_segment,
                                          alpha_segment.position)
     IN p # NONE /\ v < p

\* the video context is blocked on the condition and nobody has signalled it
VideoBlocked == vpc = "v_wait" /\ "video" \in waiting

\* something other than the gap has happened to the waiting video context
\* before it made its next decision: flushing or EOS on the video side, a
\* buffer stored in the slot, or the alpha segment replaced
Overtaken ==
  /\ vpc \in {"v_wait", "v_decide"}
  /\ \/ video_flushing \/ video_eos
     \/ alpha_buffer # NoBuf
     \/ ~BeforeAlphaPosition

\* C20: a gap event on the alpha pad writes the end of the gap into the
\* position of the alpha segment, and nothing else: the slot is left as it
\* is; the handler then broadcasts on the condition. A video context is never
\* left blocked on an empty slot with its buffer before the alpha position
\* unless that broadcast is still to come, however the gap handler and the
\* check-then-wait of the video context interleave; and such a video context
\* is in the end released and pushes its buffer downstream as it came, unless
\* flushing, EOS, a new alpha buffer or a new alpha segment overtakes it.
C20_GapWakesVideo ==
  /\ [][ /\ (apc = "idle" /\ apc' = "ae_wake"
               => /\ \E start \in Times \ {0}, duration \in {1, NONE} :
                       alpha_segment'.position =
                         IF duration # NONE THEN start + duration ELSE start
                  /\ alpha_segment' = [alpha_segment EXCEPT
                                         !.position = alpha_segment'.position]
                  /\ alpha_buffer' = alpha_buffer /\ waiting' = waiting
                  /\ vpc' = vpc /\ vloc' = vloc)
         /\ (apc = "ae_wake" /\ apc' # "ae_wake"
               => lock = "free" /\ waiting' = {} /\ apc' = "idle") ]_vars
  /\ [](VideoBlocked /\ alpha_buffer = NoBuf /\ BeforeAlphaPosition
          => apc = "ae_wake")
  /\ [][ vpc = "v_decide" /\ vlast.branch = "wait" /\ BeforeAlphaPosition
           /\ alpha_buffer = NoBuf /\ ~video_flushing /\ ~video_eos
           => vpc' \in {"v_decide", "v_fwd"} ]_vars
  /\ (VideoBlocked /\ alpha_buffer = NoBuf /\ BeforeAlphaPosition
        ~> vpc # "v_wait")
  /\ (VideoBlocked /\ alpha_buffer = NoBuf /\ BeforeAlphaPosition
        ~> (vloc.out = "plain" /\ vloc.pair = 0) \/ Overtaken)

\* C20 as stated: the video context that waited and finds, once woken, its
\* buffer before the alpha position, pushes that buffer downstream as it
\* came, whatever else has happened meanwhile
C20_WokenAlwaysForwards ==
  [][ vpc = "v_decide" /\ vlast.branch = "wait" /\ BeforeAlphaPosition
        /\ vpc' # "v_decide"
        => vpc' = "v_fwd" ]_vars

\* the gap handler has moved the alpha position past the buffer of a video
\* context that is blocked on the empty slot, and has yet to broadcast
C20_Witness ==
  /\ VideoBlocked /\ BeforeAlphaPosition /\ apc = "ae_wake"
  /\ alpha_buffer = NoBuf /\ ~video_flushing /\ ~alpha_eos
  /\ alpha_segment.position > alpha_segment.start

\* --------------------------------------------------------- video clipping
\* the video segments the clipping is examined on: the initial one, one with
\* a stop, and one whose start and stop coincide
ClipSegments ==
  { gst_segment_init("TIME"),
    [format |-> "TIME", start |-> 1, stop |-> MaxTime + 1, base |-> 0,
     position |-> 1],
    [format |-> "TIME", start |-> 1, stop |-> 1, base |-> 0, position |-> 1] }

\* GST_BUFFER_DURATION of the video buffers, zero included
ClipDurations == {0, 1, 2, NONE}

\* the element in PAUSED after a segment event on the video pad and EOS on
\* the alpha pad, so that an accepted video buffer passes through
ClipInit ==
  /\ state = "PAUSED"
  /\ segment \in ClipSegments
  /\ alpha_segment = gst_segment_init("TIME")
  /\ alpha_buffer = NoBuf
  /\ video_flushing = FALSE /\ video_eos = FALSE /\ video_segment_done = FALSE
  /\ alpha_flushing = FALSE /\ alpha_eos = TRUE /\ alpha_segment_done = FALSE
  /\ fps_dur = 0
  /\ lock = "free"
  /\ waiting = {}
  /\ vpc = "idle" /\ vloc = NoLoc /\ vlast = NoLast
  /\ apc = "idle" /\ aloc = NoBuf /\ alast = NoALast
  /\ vev = ZeroSegment /\ aev = ZeroSegment
  /\ nin = 0
  /\ pix = NoPix

ClipNext ==
  \/ \E ts \in Stamps, dur \in ClipDurations : VideoChain(ts, dur)
  \/ VideoDecide
  \/ \E r \in FlowReturns : VideoForward(r)
  \/ VideoUpdatePosition

ClipSpec == ClipInit /\ [][ClipNext]_vars

\* the instants from 0 up to one past every stamp and segment bound in use
ClipInstants == 0..(MaxTime + 4)

\* the half-open interval [a, b) of instants, b = NONE meaning no end
HalfOpen(a, b) == {x \in ClipInstants : a <= x /\ (b = NONE \/ x < b)}

\* the same, an interval whose two ends coincide standing for that instant
HalfOpenOrInstant(a, b) == IF a = b THEN {a} ELSE HalfOpen(a, b)

\* the call of the video chain function returned at out_of_segment
RejectedBySegment == vpc' = "idle" /\ vlast'.branch = "out_of_segment"

\* C21 as stated: a video buffer of unknown stop that starts before the
\* segment is rejected; any other is rejected exactly when the half-open
\* interval [start, stop) does not meet [segment.start, segment.stop).
C21_RejectedIffEmptyIntersection ==
  [][ \A ts \in Times, dur \in ClipDurations :
        VideoChain(ts, dur)
          => LET stop == IF dur = NONE THEN NONE ELSE ts + dur
             IN RejectedBySegment
                  <=> \/ stop = NONE /\ ts < segment.start
                      \/ HalfOpen(ts, stop)
                           \cap HalfOpen(segment.start, segment.stop) = {} ]_vars

\* C21: a video buffer of unknown stop that starts before the segment is
\* rejected and not moved to the segment start; any other is rejected
\* exactly when [start, stop) does not meet [segment.start, segment.stop),
\* where a buffer of duration zero counts as the instant of its stamp and a
\* segment whose start and stop coincide as that instant. A buffer that is
\* not rejected goes on to the decision.
C21_RejectedIffNoCommonInstant ==
  [][ \A ts \in Times, dur \in ClipDurations :
        VideoChain(ts, dur)
          => LET stop == IF dur = NONE THEN NONE ELSE ts + dur
             IN /\ RejectedBySegment
                     <=> \/ stop = NONE /\ ts < segment.start
                         \/ HalfOpenOrInstant(ts, stop)
                              \cap HalfOpenOrInstant(segment.start,
                                                     segment.stop) = {}
                /\ ~RejectedBySegment
                     => vpc' = "v_decide" /\ vloc'.start = ts ]_vars

\* a buffer of unknown stop that started before the segment has been
\* rejected
C21_Witness ==
  /\ vpc = "idle" /\ vlast.branch = "out_of_segment"
  /\ segment.start = 1 /\ segment.stop = MaxTime + 1 /\ nin = 1

\* C22: once a video buffer has been accepted, the stamps it carries are the
\* clipped ones, and the running-time interval the pairing decision compares
\* with that of the alpha buffer is the one of the clipped start and stop.
C22_DecisionUsesClippedInterval ==
  vpc = "v_decide"
    => /\ vloc.ts = gst_segment_clip_start(segment, vloc.start)
       /\ vid_running_time(segment, vloc) = VRunStart
       /\ vid_running_time_end(segment, vloc) = VRunEnd

\* the step in which a call of the video chain function that got past the
\* clipping returns
AcceptedVideoReturns ==
  vpc \in {"v_decide", "v_pos"} /\ vpc' = "idle"

\* C23: whenever the video chain function returns for a buffer that passed
\* the clipping, whichever way it ends, the position of the video segment is
\* the clipped start of that buffer.
C23_PositionAfterAnyOutcome ==
  [][ AcceptedVideoReturns
        => /\ vloc.ts = vloc.clip_start
           /\ segment'.position = vloc.clip_start ]_vars

\* the slot holds the alpha buffer the video context examined in its last
\* decision, and that buffer lacks a timestamp or a duration
SeenUntimedAlpha ==
  /\ alpha_buffer # NoBuf /\ alpha_buffer.id = vloc.seen
  /\ ~valid_alpha_time(alpha_buffer)

\* C24: a decision that finds in the slot an alpha buffer without timestamp
\* or without duration takes the emit branch, never the stale or the
\* premature one, and marks the buffer for release; the buffer is still in
\* the slot when the frame is composited, so that the output, if the video
\* frame can be mapped at all, is paired with it; the video context then
\* releases it before it returns, so that no later video buffer finds it.
C24_UntimedAlphaUsedOnce ==
  [][ /\ (Deciding /\ alpha_buffer # NoBuf /\ ~valid_alpha_time(alpha_buffer)
            => /\ vpc' = "v_push" /\ alpha_buffer' = alpha_buffer
               /\ vloc'.seen = alpha_buffer.id /\ vloc'.pop_alpha)
      /\ (vpc = "v_push" /\ SeenUntimedAlpha /\ vpc' = "v_push"
            => alpha_buffer' = alpha_buffer)
      /\ (vpc = "v_push" /\ SeenUntimedAlpha /\ vpc' # "v_push"
            => /\ vpc' = "v_pop" /\ alpha_buffer' = alpha_buffer
               /\ vloc'.out = "comp" => vloc'.pair = vloc.seen)
      /\ (vpc = "v_pop" /\ vpc' # "v_pop"
            => vpc' = "v_pos" /\ alpha_buffer' = NoBuf /\ waiting' = {})
    ]_vars

\* ------------------------------------------------------ segment positions
\* gst_event_parse_gap hands over whatever start and duration the event
\* carries (lines 921-926): gaps that begin before the alpha segment or run
\* past its stop are delivered as well
GapNext ==
  \/ Next
  \/ \E start \in Times, duration \in Durations : AlphaEventGap(start, duration)

GapSpec == Init /\ [][GapNext]_vars

\* start <= position <= stop, for a segment in TIME format, of the fields
\* that are defined
PositionInside(seg) ==
  seg.format = "TIME" /\ seg.position # NONE
    => /\ seg.start # NONE => seg.start <= seg.position
       /\ seg.stop # NONE => seg.position <= seg.stop

\* C25: in every reachable state the position of the video segment and the
\* position of the alpha segment lie between the start and the stop of their
\* segment.
C25_PositionWithinSegment ==
  PositionInside(segment) /\ PositionInside(alpha_segment)

\* ------------------------------------------------------------- flush-stop
\* a segment as a flush-stop leaves it: TIME, from 0, no stop, at 0
FreshTimeSegment ==
  [format |-> "TIME", start |-> 0, stop |-> NONE, base |-> 0, position |-> 0]

\* C26: the flush-stop of a stream clears the flushing, EOS and segment-done
\* flags of that stream and puts a fresh TIME segment in place of that
\* stream's segment; the flags and the segment of the other stream stay as
\* they are; the flush-stop of the alpha stream leaves the slot empty, that
\* of the video stream leaves the slot as it is.
C26_FlushStopResetsOwnStream ==
  [][ /\ (VideoEventFlushStop
            => /\ ~video_flushing' /\ ~video_eos' /\ ~video_segment_done'
               /\ segment' = FreshTimeSegment
               /\ UNCHANGED <<alpha_flushing, alpha_eos, alpha_segment_done,
                              alpha_segment, alpha_buffer>>)
      /\ (AlphaEventFlushStop
            => /\ ~alpha_flushing' /\ ~alpha_eos' /\ ~alpha_segment_done'
               /\ alpha_segment' = FreshTimeSegment
               /\ alpha_buffer' = NoBuf
               /\ UNCHANGED <<video_flushing, video_eos, video_segment_done,
                              segment>>) ]_vars

\* the alpha stream, which was flushing when its last buffer came, has been
\* through a flush-stop; the video stream is flushing still
C26_Witness ==
  /\ alast.ret = "FLUSHING" /\ ~alpha_flushing /\ video_flushing
  /\ alpha_segment = FreshTimeSegment /\ alpha_buffer = NoBuf
  /\ ~alpha_eos /\ ~alpha_segment_done

\* ------------------------------------------------- release after the push
\* the element in PAUSED once the alpha chain function has stored a first
\* buffer (lines 824-831); the inputs are counted from there
SlotInit ==
  /\ state = "PAUSED"
  /\ segment = gst_segment_init("TIME")
  /\ alpha_segment = gst_segment_init("TIME")
  /\ alpha_buffer \in {[id |-> 1, ts |-> 0, dur |-> 1],
                       [id |-> 1, ts |-> 0, dur |-> NONE]}
  /\ video_flushing = FALSE /\ video_eos = FALSE /\ video_segment_done = FALSE
  /\ alpha_flushing = FALSE /\ alpha_eos = FALSE /\ alpha_segment_done = FALSE
  /\ fps_dur = 0
  /\ lock = "free"
  /\ waiting = {}
  /\ vpc = "idle" /\ vloc = NoLoc /\ vlast = NoLast
  /\ apc = "idle" /\ aloc = NoBuf /\ alast = [ret |-> "OK", stored |-> TRUE]
  /\ vev = ZeroSegment /\ aev = ZeroSegment
  /\ nin = 0
  /\ pix = NoPix

SlotSpec == SlotInit /\ [][Next]_vars

\* C27: the video context takes out of the slot only the alpha buffer it
\* examined in the decision at hand: the one it judged stale, in that same
\* critical section, or the one it composited with and marked as consumed;
\* the release that follows the push finds in the slot that buffer or
\* nothing, never a buffer stored while the lock was dropped for the push.
C27_ReleasesOnlyExaminedBuffer ==
  [][ /\ (vpc = "v_decide" /\ vpc' = "v_lock" /\ alpha_buffer' # alpha_buffer
            => alpha_buffer' = NoBuf
                 /\ AlphaTooOld(segment, alpha_segment, alpha_buffer, vloc))
      /\ (vpc = "v_pop" /\ vpc' # "v_pop" /\ alpha_buffer # NoBuf
            => alpha_buffer.id = vloc.seen) ]_vars

\* ------------------------------------------------ alpha buffers turned away
\* the alpha chain function returned r without storing the buffer and left
\* the slot, the alpha segment and the blocked contexts as they were
AlphaDiscarded(r) ==
  /\ apc' = "idle" /\ alast' = [ret |-> r, stored |-> FALSE]
  /\ aloc' = NoBuf /\ lock' = "free"
  /\ UNCHANGED <<alpha_buffer, alpha_segment, waiting>>

\* C28: the alpha chain function turns a buffer away with FLUSHING when the
\* alpha stream is flushing, else with EOS when it is at EOS, else with OK
\* when the buffer has a timestamp and gst_segment_clip finds it outside the
\* alpha segment; the slot and the alpha segment, position included, stay as
\* they were. A buffer without timestamp that is not turned away for
\* flushing or EOS is never outside the segment: it is stored, the position
\* left alone, or, the slot being full, it waits to be stored.
C28_AlphaRejectionLeavesNoTrace ==
  [][ \A ts \in Stamps, dur \in Durations :
        AlphaChain(ts, dur)
          => LET stop == IF dur # NONE THEN ts + dur ELSE NONE
                 outside == ts # NONE
                              /\ ~gst_segment_clip_in(alpha_segment, ts, stop)
             IN /\ alpha_flushing => AlphaDiscarded("FLUSHING")
                /\ ~alpha_flushing /\ alpha_eos => AlphaDiscarded("EOS")
                /\ ~alpha_flushing /\ ~alpha_eos /\ outside
                     => AlphaDiscarded("OK")
                /\ ~alpha_flushing /\ ~alpha_eos /\ ~outside
                     => IF alpha_buffer = NoBuf
                        THEN /\ alpha_buffer' # NoBuf /\ alast'.stored
                             /\ alpha_buffer'.ts = gst_segment_clip_start(alpha_segment, ts)
                             /\ ts = NONE => alpha_segment' = alpha_segment
                        ELSE /\ apc' = "a_wait" /\ alpha_buffer' = alpha_buffer
                             /\ aloc'.ts = gst_segment_clip_start(alpha_segment, ts)
                             /\ alpha_segment' = alpha_segment ]_vars

\* an alpha buffer has been turned away as outside the alpha segment while
\* the slot held an earlier one, which is still there
C28_Witness ==
  /\ apc = "idle" /\ alast = [ret |-> "OK", stored |-> FALSE]
  /\ alpha_buffer # NoBuf /\ ~alpha_flushing /\ ~alpha_eos
  /\ alpha_segment.format = "TIME" /\ alpha_segment.start = 1

\* ------------------------------------------------------------- progress
\* C29: video buffers that keep coming with growing running times get every
\* alpha buffer with valid timing out of the slot, which lets a blocked
\* alpha context store its buffer. Stated on the single decision: a decision
\* leaves such an alpha buffer in the slot, unmarked for release, only while
\* the video buffer starts, in running time, before the end of the alpha
\* buffer, both being defined; a later video buffer therefore reaches that
\* end, and the decision that finds it there releases the alpha buffer.
C29_KeptAlphaEndsAfterVideo ==
  [][ Deciding /\ AlphaHeldValid /\ alpha_buffer' = alpha_buffer
        /\ ~(vpc' = "v_push" /\ vloc'.pop_alpha)
        => /\ ARunEnd # NONE /\ VRunStart # NONE
           /\ VRunStart < ARunEnd ]_vars

\* ------------------------------------------------------------- restart
\* C30: the READY->PAUSED transition that follows a teardown leaves the
\* element in its initial stream state, whatever came before: the slot
\* empty, the flushing, EOS and segment-done flags of both streams false,
\* both segments fresh TIME segments.
C30_RestartIsFreshStart ==
  [][ state = "READY" /\ state' = "PAUSED"
        => /\ alpha_buffer' = NoBuf
           /\ ~video_flushing' /\ ~video_eos' /\ ~video_segment_done'
           /\ ~alpha_flushing' /\ ~alpha_eos' /\ ~alpha_segment_done'
           /\ segment' = FreshTimeSegment
           /\ alpha_segment' = FreshTimeSegment ]_vars

====
